---- MODULE Spec2Model ----
(***************************************************************************)
(* Model of the inlined runner of worker/implementation_worker.py: the     *)
(* job driver (main / run_agent), the plan parser, the step classifier,    *)
(* the publish actuator (commit_and_push), the deployment trigger          *)
(* (trigger_vercel_deploy) and the notifier (_post).                       *)
(*                                                                         *)
(* Texts are sequences of one-character strings.  "EMDASH" stands for the  *)
(* single character U+2014.                                                *)
(***************************************************************************)
EXTENDS Integers, Sequences, FiniteSets, TLC

\* ------------------------------------------------------------------------
\* Bounds of the exploration
\* ------------------------------------------------------------------------
\* number of stream items (text blocks, ignored items) consumed before the
\* terminal result
MaxMsgs == 3

\* ------------------------------------------------------------------------
\* Character level helpers (python str / re semantics)
\* ------------------------------------------------------------------------
NL == "\n"

IsSpace(c) == c \in {" ", "\t", NL}

IsDigit(c) == c \in {"0", "1", "2", "3", "4", "5", "6", "7", "8", "9"}

IsDash(c) == c \in {"-", "EMDASH"}

Lower(c) ==
    CASE c = "S" -> "s"
      [] c = "T" -> "t"
      [] c = "E" -> "e"
      [] c = "P" -> "p"
      [] OTHER -> c

Min(a, b) == IF a < b THEN a ELSE b

\* s[from:] of python (from is a 0-based offset)
Drop(s, n) == SubSeq(s, n + 1, Len(s))

\* s[:n] of python
Take(s, n) == SubSeq(s, 1, Min(n, Len(s)))

\* number of leading characters of s that satisfy the class test
RECURSIVE SpanSpace(_)
SpanSpace(s) ==
    IF s # <<>> /\ IsSpace(Head(s)) THEN 1 + SpanSpace(Tail(s)) ELSE 0

RECURSIVE SpanDigit(_)
SpanDigit(s) ==
    IF s # <<>> /\ IsDigit(Head(s)) THEN 1 + SpanDigit(Tail(s)) ELSE 0

RECURSIVE RStrip(_)
RStrip(s) ==
    IF s # <<>> /\ IsSpace(s[Len(s)]) THEN RStrip(SubSeq(s, 1, Len(s) - 1)) ELSE s

\* str.strip()
Strip(s) == RStrip(Drop(s, SpanSpace(s)))

\* text.split("\n")
RECURSIVE SplitNL(_, _)
SplitNL(s, cur) ==
    IF s = <<>> THEN <<cur>>
    ELSE IF Head(s) = NL THEN <<cur>> \o SplitNL(Tail(s), <<>>)
    ELSE SplitNL(Tail(s), Append(cur, Head(s)))

\* [l.strip() for l in text.split("\n") if l.strip()]
RECURSIVE StripNonEmpty(_)
StripNonEmpty(ls) ==
    IF ls = <<>> THEN <<>>
    ELSE IF Strip(Head(ls)) = <<>> THEN StripNonEmpty(Tail(ls))
    ELSE <<Strip(Head(ls))>> \o StripNonEmpty(Tail(ls))

Lines(text) == StripNonEmpty(SplitNL(text, <<>>))

\* "%s" % n for a natural number n
RECURSIVE DecStr(_)
DecStr(n) ==
    LET d == <<"0", "1", "2", "3", "4", "5", "6", "7", "8", "9">>
    IN IF n < 10 THEN <<d[n + 1]>> ELSE DecStr(n \div 10) \o <<d[(n % 10) + 1]>>

\* ------------------------------------------------------------------------
\* Plan parser: run_agent, first message
\* ------------------------------------------------------------------------
\* (?:\s*[-—]\s*.+)$ matched against the whole of s
SepTail(s) ==
    LET w == SpanSpace(s)
    IN /\ Len(s) > w
       /\ IsDash(s[w + 1])
       /\ Len(s) > w + 1

PlanItemKeepTail(l) ==
    LET d == SpanDigit(l)
        a == Drop(l, d)
    IN IF d >= 1 /\ a # <<>> /\ Head(a) = "."
       THEN Drop(Tail(a), SpanSpace(Tail(a)))
       ELSE <<>>

\* re.match(r"^(\d+)\.\s*(.+?)(?:\s*[-—]\s*.+)?$", l): the value of
\* m.group(2), or <<>> when there is no match.  \s* is greedy and is
\* tried longest first; (.+?) is lazy and takes the shortest non-empty
\* prefix after which the rest is empty or is a separator tail.
PlanItem(l) ==
    LET d    == SpanDigit(l)
        a    == Drop(l, d)
        dot  == d >= 1 /\ a # <<>> /\ Head(a) = "."
        b    == IF dot THEN Tail(a) ELSE <<>>
        \* candidate lengths of \s*, longest first, then candidate lengths
        \* of group 2, shortest first
        ok(w, k) == /\ k >= 1 /\ k <= Len(b) - w
                    /\ \/ w + k = Len(b)
                       \/ SepTail(Drop(b, w + k))
        ws   == {w \in 0..SpanSpace(b) : \E k \in 1..Len(b) : ok(w, k)}
    IN IF ~dot \/ ws = {} THEN <<>>
       ELSE LET w == CHOOSE x \in ws : \A y \in ws : y <= x
                k == CHOOSE x \in 1..Len(b) :
                        ok(w, x) /\ \A y \in 1..Len(b) : ok(w, y) => x <= y
            IN SubSeq(b, w + 1, w + k)

\* the loop over lines: plan_steps.append(m.group(2).strip()) for matches
RECURSIVE NumberedLabels(_)
NumberedLabels(ls) ==
    IF ls = <<>> THEN <<>>
    ELSE IF PlanItem(Head(ls)) # <<>>
         THEN <<Strip(PlanItem(Head(ls)))>> \o NumberedLabels(Tail(ls))
         ELSE NumberedLabels(Tail(ls))

FallbackLines == 6

\* plan_steps after a text has been parsed as the plan; old is plan_steps
\* before (the empty list for the first message)
ParsePlan(old, text) ==
    LET ls  == Lines(text)
        num == old \o NumberedLabels(ls)
    IN IF num # <<>> THEN num ELSE Take(ls, FallbackLines)

DefaultTotal == 6

TotalOfFloor(plan) == IF Len(plan) > DefaultTotal THEN Len(plan) ELSE DefaultTotal

\* total_steps[0] = len(plan_steps) or 6
TotalOf(plan) == IF Len(plan) # 0 THEN Len(plan) ELSE DefaultTotal

\* ------------------------------------------------------------------------
\* Step classifier: run_agent, subsequent messages
\* ------------------------------------------------------------------------
\* the first line of s, .+ never crosses a newline
RECURSIVE UpToNL(_)
UpToNL(s) ==
    IF s = <<>> \/ Head(s) = NL THEN <<>> ELSE <<Head(s)>> \o UpToNL(Tail(s))

StepTag == <<"[", "s", "t", "e", "p">>

\* re.match(r"^\[STEP\s+(\d+)/(\d+)\]\s*(.+)", text, re.IGNORECASE):
\* [ok, i, n, label] with label = m.group(3) (digits kept as text)
StepHeader(text) ==
    LET no   == [ok |-> FALSE, i |-> <<>>, n |-> <<>>, label |-> <<>>]
        tag  == Len(text) >= 5 /\ \A j \in 1..5 : Lower(text[j]) = StepTag[j]
        a    == Drop(text, 5)
        w1   == SpanSpace(a)
        b    == Drop(a, w1)
        d1   == SpanDigit(b)
        c    == Drop(b, d1)
        e    == IF c # <<>> THEN Tail(c) ELSE <<>>
        d2   == SpanDigit(e)
        f    == Drop(e, d2)
        g    == IF f # <<>> THEN Tail(f) ELSE <<>>
        \* \s* is greedy and gives characters back until (.+) finds a
        \* character that is not a newline
        ws   == {w \in 0..SpanSpace(g) : w < Len(g) /\ g[w + 1] # NL}
        lab  == IF ws = {} THEN <<>>
                ELSE UpToNL(Drop(g, CHOOSE x \in ws : \A y \in ws : y <= x))
    IN IF /\ tag /\ w1 >= 1 /\ d1 >= 1
          /\ c # <<>> /\ Head(c) = "/"
          /\ d2 >= 1
          /\ f # <<>> /\ Head(f) = "]"
          /\ lab # <<>>
       THEN [ok |-> TRUE, i |-> Take(b, d1), n |-> Take(e, d2), label |-> lab]
       ELSE no

ImplementingStep ==
    <<"I", "m", "p", "l", "e", "m", "e", "n", "t", "i", "n", "g", " ",
      "s", "t", "e", "p", " ">>

ClassifyPlanFirst(text, cursor, plan) ==
    IF cursor < Len(plan) THEN plan[cursor + 1]
    ELSE IF StepHeader(text).ok THEN Strip(StepHeader(text).label)
    ELSE ImplementingStep \o DecStr(cursor + 1)

\* the summary chosen for a step message
Classify(text, cursor, plan) ==
    IF StepHeader(text).ok THEN Strip(StepHeader(text).label)
    ELSE IF cursor < Len(plan) THEN plan[cursor + 1]
    ELSE ImplementingStep \o DecStr(cursor + 1)

BuildComplete ==
    <<"B", "u", "i", "l", "d", " ", "c", "o", "m", "p", "l", "e", "t", "e">>

\* ------------------------------------------------------------------------
\* Job inputs (environment of main) and the agent's texts
\* ------------------------------------------------------------------------
\* REPO_URL: absent, a GitHub URL, a URL of another host
RepoUrls == {"", "https://github.com/org/app.git", "https://gitlab.com/org/app"}

\* CALLBACK_BASE_URL: absent, not http/https, http
CallbackUrls == {"", "ftp://cb/", "https://cb/"}

\* base as computed from CALLBACK_BASE_URL: the URL without its trailing
\* slashes when it starts with http:// or https://, "" otherwise
BaseOf(cb) == IF cb = "https://cb/" THEN "https://cb" ELSE ""

\* re.match(r"https://github\.com/([^/]+)/([^/]+?)(?:\.git)?$", repo_url)
RepoParses(url) == url = "https://github.com/org/app.git"

\* "1. A - x\n2. B"
TextPlan == <<"1", ".", " ", "A", " ", "-", " ", "x", NL, "2", ".", " ", "B">>

\* " [STEP 9/9] W"
TextHeader == <<" ", "[", "S", "T", "E", "P", " ", "9", "/", "9", "]", " ", "W">>

\* " \n"
TextBlank == <<" ", NL>>

\* block.text of the text blocks the agent may send
AgentTexts == {TextPlan, TextHeader, TextBlank}

\* outcomes of the three git commands of one step
StepGitOutcomes == {"ok", "add_fail", "commit_fail", "push_fail", "push_timeout"}

\* outcomes of the deployment request: an error, or a response whose url
\* comes without or with its scheme (a url is a sequence of its parts)
DeployOutcomes ==
    { [ok |-> FALSE, url |-> <<>>],
      [ok |-> TRUE, url |-> <<"app.vercel.app">>],
      [ok |-> TRUE, url |-> <<"https://", "app.vercel.app">>] }

\* the five commands of the git setup, in order
InitCmds == <<"init", "config_email", "config_name", "branch", "remote_add">>

\* ------------------------------------------------------------------------
\* State
\* ------------------------------------------------------------------------
VARIABLES
    repo_url,       \* REPO_URL ("" when absent)
    github_token,   \* GITHUB_TOKEN present
    vercel_token,   \* VERCEL_TOKEN present
    base,           \* callback base, "" when notification is off
    pc,             \* INIT, STREAMING, COMPLETING, FINISHED, ABORTED
    push_url,       \* TRUE when push_url is set (publishing enabled)
    plan_steps,     \* the plan labels
    total_steps,    \* total_steps[0]
    step_index,     \* step_index[0], the cursor
    started_sent,   \* started_sent[0]
    trace,          \* everything the job did, in order
    local,          \* commit messages of the local branch
    remote,         \* commit messages of the remote branch
    consumed,       \* number of stream items consumed
    dirty,          \* the working tree differs from the last commit
    first_doc,      \* the lines of the first message, when the run is given one
    script,         \* what the environment does, when the run is given it
    first_run,      \* what an earlier run on the same script did, if any
    callback_up,    \* the callback target answers requests
    crash           \* "none", or what ended the run: "agent", "push_timeout"

vars == <<repo_url, github_token, vercel_token, base, pc, push_url, plan_steps,
          total_steps, step_index, started_sent, trace, local, remote,
          consumed, dirty, first_doc, script, first_run, callback_up, crash>>

inputs == <<repo_url, github_token, vercel_token, base, first_doc, script,
            first_run, callback_up>>

\* ------------------------------------------------------------------------
\* Trace entries
\* ------------------------------------------------------------------------
\* _post(path, body): a notification; sent tells whether a request is made,
\* answered whether the request succeeds (the outcome is discarded)
Post(path, body) ==
    [k |-> "post", path |-> path, body |-> body, sent |-> base # "",
     answered |-> base # "" /\ callback_up]

\* subprocess.run(["git", ...]) with its outcome
Git(cmd, msg, rc) == [k |-> "git", cmd |-> cmd, msg |-> msg, rc |-> rc]

\* the request to the deployment API
DeployReq(rc) == [k |-> "deploy", rc |-> rc]

\* git commit: changed tells whether there was anything to commit
GitCommit(msg, rc, changed) ==
    [k |-> "git", cmd |-> "commit", msg |-> msg, rc |-> rc, changed |-> changed]

\* one item taken from the agent stream
Recv(what) == [k |-> "recv", what |-> what]

\* a non-empty text block taken from the agent stream, text is block.text.strip()
RecvText(text) == [k |-> "recv", what |-> "text", text |-> text]

SummaryCut == 72

\* "Step %s: %s" % (step_index, summary[:72])
CommitMsg(idx, summary) ==
    <<"S", "t", "e", "p", " ">> \o DecStr(idx) \o <<":", " ">> \o Take(summary, SummaryCut)

\* url as normalised by trigger_vercel_deploy
DeployUrl(url) ==
    IF url # <<>> /\ Head(url) \notin {"http://", "https://"}
    THEN <<"https://">> \o url ELSE url

\* ------------------------------------------------------------------------
\* Deployment trigger and publish actuator
\* ------------------------------------------------------------------------
OnDeployErrorReported == <<Post("error", [phase |-> "deploy"])>>

\* except Exception of trigger_vercel_deploy: a log line, no notification
OnDeployError == <<>>

\* trigger_vercel_deploy(): the trace it leaves, d is the request's outcome
TriggerVercelDeploy(d) ==
    IF ~vercel_token \/ repo_url = "" THEN <<>>
    ELSE IF ~RepoParses(repo_url) THEN <<>>
    ELSE IF d.ok
         THEN <<DeployReq("ok"), Post("deployment", [url |-> DeployUrl(d.url)])>>
         ELSE <<DeployReq("fail")>> \o OnDeployError

PushError(idx) == Post("error", [phase |-> "git_push", stepIndex |-> idx])

OnCalledProcessErrorSilent(idx) == <<>>

\* except subprocess.CalledProcessError of commit_and_push
OnCalledProcessError(idx) == <<PushError(idx)>>

CommitOutcomeNoEmpty(g, changed) ==
    IF ~changed /\ g # "add_fail" THEN "nothing_to_commit" ELSE g

\* git commit ... --allow-empty: what the step's git commands do when the
\* environment's outcome is g; an empty commit is a commit like any other
CommitOutcome(g, changed) == g

LocalRolledBack(loc, msg) == loc

\* the local branch after a commit whose push failed: the handler leaves
\* the commit in place
LocalAfterPushFail(loc, msg) == Append(loc, msg)

\* commit_and_push(step_index, summary) under git outcome g and deployment
\* outcome d, w telling whether the agent wrote files since the last step:
\* the trace it leaves, the branches and the tree afterwards, and whether an
\* exception leaves the function (only CalledProcessError is caught)
CommitAndPush(idx, summary, g, d, w) ==
    LET msg  == CommitMsg(idx, summary)
        tree == dirty \/ w
        out  == CommitOutcome(g, tree)
        add  == Git("add", <<>>, "ok")
        com  == GitCommit(msg, "ok", tree)
        same == [loc |-> local, rem |-> remote, raised |-> FALSE, dirty |-> tree]
    IN IF ~push_url
       THEN [tr |-> <<>>, loc |-> local, rem |-> remote, raised |-> FALSE,
             dirty |-> dirty]
       ELSE CASE out = "add_fail" ->
                   [tr |-> <<Git("add", <<>>, "fail")>> \o OnCalledProcessError(idx)]
                      @@ same
              [] out = "commit_fail" ->
                   [tr |-> <<add, GitCommit(msg, "fail", tree)>>
                             \o OnCalledProcessError(idx)] @@ same
              [] out = "nothing_to_commit" ->
                   [tr |-> <<add, GitCommit(msg, "nothing_to_commit", tree)>>
                             \o OnCalledProcessError(idx)] @@ same
              [] out = "push_fail" ->
                   [tr |-> <<add, com, Git("push", <<>>, "fail")>>
                             \o OnCalledProcessError(idx),
                    loc |-> LocalAfterPushFail(local, msg), rem |-> remote,
                    raised |-> FALSE, dirty |-> FALSE]
              [] out = "push_timeout" ->
                   [tr |-> <<add, com, Git("push", <<>>, "timeout")>>,
                    loc |-> Append(local, msg), rem |-> remote, raised |-> TRUE,
                    dirty |-> FALSE]
              [] OTHER ->
                   [tr |-> <<add, com, Git("push", <<>>, "ok"),
                             Post("push", [stepIndex |-> idx, summary |-> summary])>>
                           \o TriggerVercelDeploy(d),
                    loc |-> Append(local, msg), rem |-> Append(local, msg),
                    raised |-> FALSE, dirty |-> FALSE]

SendStepSkipFinalPublish(summary, done, g, d, w) ==
    LET idx == step_index
        pub == IF done
               THEN [tr |-> <<>>, loc |-> local, rem |-> remote, raised |-> FALSE,
                     dirty |-> dirty]
               ELSE CommitAndPush(idx, summary, g, d, w)
    IN [pub EXCEPT !.tr =
          <<Post("step", [stepIndex |-> idx, totalSteps |-> total_steps,
                          done |-> done, summary |-> summary])>> \o pub.tr]

SendStepPublishFirst(summary, done, g, d, w) ==
    LET idx == step_index
        pub == CommitAndPush(idx, summary, g, d, w)
    IN [pub EXCEPT !.tr =
          pub.tr \o <<Post("step", [stepIndex |-> idx, totalSteps |-> total_steps,
                                    done |-> done, summary |-> summary])>>]

SendStepIfDelivered(summary, done, g, d, w) ==
    LET idx == step_index
        pub == IF base # "" /\ callback_up
               THEN CommitAndPush(idx, summary, g, d, w)
               ELSE [tr |-> <<>>, loc |-> local, rem |-> remote, raised |-> FALSE,
                     dirty |-> dirty]
    IN [pub EXCEPT !.tr =
          <<Post("step", [stepIndex |-> idx, totalSteps |-> total_steps,
                          done |-> done, summary |-> summary])>> \o pub.tr]

\* send_step(summary, done)
SendStep(summary, done, g, d, w) ==
    LET idx == step_index
        pub == CommitAndPush(idx, summary, g, d, w)
    IN [pub EXCEPT !.tr =
          <<Post("step", [stepIndex |-> idx, totalSteps |-> total_steps,
                          done |-> done, summary |-> summary])>> \o pub.tr]

\* ------------------------------------------------------------------------
\* Initial state: main() before the git setup
\* ------------------------------------------------------------------------
Init ==
    /\ repo_url \in RepoUrls
    /\ github_token \in BOOLEAN
    /\ vercel_token \in BOOLEAN
    /\ \E cb \in CallbackUrls : base = BaseOf(cb)
    /\ pc = "INIT"
    /\ push_url = FALSE
    /\ plan_steps = <<>>
    /\ total_steps = 0
    /\ step_index = 0
    /\ started_sent = FALSE
    /\ trace = <<>>
    /\ local = <<>>
    /\ remote = <<>>
    /\ consumed = 0
    /\ dirty = TRUE
    /\ first_doc = <<>>
    /\ script = <<>>
    /\ first_run = <<>>
    /\ callback_up = TRUE
    /\ crash = "none"

\* ------------------------------------------------------------------------
\* Git setup
\* ------------------------------------------------------------------------
\* the commands of the setup when command number f exits non-zero (f = 0:
\* none does); check=True stops at the first failure
RECURSIVE InitRun(_, _)
InitRun(i, f) ==
    IF i > Len(InitCmds) THEN <<>>
    ELSE IF i = f THEN <<Git(InitCmds[i], <<>>, "fail")>>
    ELSE <<Git(InitCmds[i], <<>>, "ok")>> \o InitRun(i + 1, f)

HasRemoteRepoOnly == repo_url # ""

\* if repo_url and github_token
HasRemote == repo_url # "" /\ github_token

PushUrlKept(f) == TRUE

\* push_url after the setup: set before the commands run, reset to None
\* by the handler of CalledProcessError
PushUrlAfterSetup(f) == f = 0

\* the setup when its f-th command fails (none when f = 0)
GitSetupOf(f) ==
    /\ pc = "INIT"
    /\ pc' = "STREAMING"
    /\ IF HasRemote
       THEN /\ push_url' = PushUrlAfterSetup(f)
            /\ trace' = trace \o InitRun(1, f) \o
                 (IF f = 0 THEN <<>>
                  ELSE <<Post("error", [phase |-> "git_init"])>>)
       ELSE UNCHANGED <<push_url, trace>>
    /\ UNCHANGED <<inputs, plan_steps, total_steps, step_index, started_sent,
                   local, remote, consumed, dirty, crash>>

GitSetup == \E f \in 0..Len(InitCmds) : GitSetupOf(f)

\* ------------------------------------------------------------------------
\* The agent stream: run_agent
\* ------------------------------------------------------------------------
\* What the stream yields before its result: text blocks of assistant
\* messages, other blocks, other messages.  The stream yields one result
\* message, as its last item; it may raise at any point.
StreamItems ==
    [type : {"text"}, text : AgentTexts]
      \cup [type : {"tool_use", "system"}, text : {<<>>}]

\* isinstance(block, TextBlock) and block.text.strip()
IsText(item) == item.type = "text" /\ Strip(item.text) # <<>>

\* a block that is not a non-empty text, or a message that is neither an
\* assistant message nor the result
IgnoredItemOf(item) ==
    /\ pc = "STREAMING"
    /\ consumed < MaxMsgs
    /\ ~IsText(item)
    /\ consumed' = consumed + 1
    /\ trace' = Append(trace, Recv("ignored"))
    /\ UNCHANGED <<inputs, pc, push_url, plan_steps, total_steps, step_index,
                   started_sent, local, remote, dirty, crash>>

IgnoredItem == \E item \in StreamItems : IgnoredItemOf(item)

StartedFlagUnset == FALSE

\* started_sent[0] = True
StartedFlag == TRUE

NextIndexSkip(i) == i + 2

\* step_index[0] += 1
NextIndex(i) == i + 1

FirstTextUnlessHeader(text) == ~started_sent /\ ~StepHeader(text).ok

\* if not started_sent[0]: the text is the plan, whatever it holds
FirstText(text) == ~started_sent

\* the first non-empty text: the plan
PlanMessageOf(item) ==
    /\ pc = "STREAMING"
    /\ consumed < MaxMsgs
    /\ IsText(item)
    /\ FirstText(Strip(item.text))
    /\ LET text == Strip(item.text)
           plan == ParsePlan(plan_steps, text)
       IN /\ started_sent' = StartedFlag
          /\ plan_steps' = plan
          /\ total_steps' = TotalOf(plan)
          /\ trace' = trace \o
               <<RecvText(text),
                 Post("start", [totalSteps |-> TotalOf(plan), planSteps |-> plan])>>
    /\ consumed' = consumed + 1
    /\ UNCHANGED <<inputs, pc, push_url, step_index, local, remote, dirty, crash>>

PlanMessage == \E item \in StreamItems : PlanMessageOf(item)

\* every later non-empty text: a step
StepMessageOf(item, g, d, w) ==
    /\ pc = "STREAMING"
    /\ consumed < MaxMsgs
    /\ IsText(item)
    /\ ~FirstText(Strip(item.text))
    /\ LET text    == Strip(item.text)
           summary == Classify(text, step_index, plan_steps)
           r       == SendStep(summary, FALSE, g, d, w)
       IN /\ trace' = trace \o <<RecvText(text)>> \o r.tr
          /\ local' = r.loc
          /\ remote' = r.rem
          /\ dirty' = r.dirty
          /\ IF r.raised
             THEN /\ pc' = "ABORTED"
                  /\ crash' = "push_timeout"
                  /\ UNCHANGED step_index
             ELSE /\ step_index' = NextIndex(step_index)
                  /\ UNCHANGED <<pc, crash>>
    /\ consumed' = consumed + 1
    /\ UNCHANGED <<inputs, push_url, plan_steps, total_steps, started_sent>>

StepMessage ==
    \E item \in StreamItems, g \in StepGitOutcomes, d \in DeployOutcomes,
       w \in BOOLEAN : StepMessageOf(item, g, d, w)

\* the terminal result message: the completion step
ResultMessageOf(g, d, w) ==
    /\ pc = "STREAMING"
    /\ LET r == SendStep(BuildComplete, TRUE, g, d, w)
       IN /\ trace' = trace \o <<Recv("result")>> \o r.tr
          /\ local' = r.loc
          /\ remote' = r.rem
          /\ dirty' = r.dirty
          /\ IF r.raised
             THEN pc' = "ABORTED" /\ crash' = "push_timeout"
             ELSE pc' = "COMPLETING" /\ UNCHANGED crash
    /\ UNCHANGED <<inputs, push_url, plan_steps, total_steps, step_index,
                   started_sent, consumed>>

ResultMessage ==
    \E g \in StepGitOutcomes, d \in DeployOutcomes, w \in BOOLEAN :
       ResultMessageOf(g, d, w)

\* the stream raises: the exception leaves anyio.run and main
AgentRaises ==
    /\ pc \in {"STREAMING", "COMPLETING"}
    /\ pc' = "ABORTED"
    /\ crash' = "agent"
    /\ UNCHANGED <<inputs, push_url, plan_steps, total_steps, step_index,
                   started_sent, trace, local, remote, consumed, dirty>>

\* ------------------------------------------------------------------------
\* After the stream has ended: pitch and done event
\* ------------------------------------------------------------------------
\* bool(repo_url or not github_token)
Success == repo_url # "" \/ ~github_token

StreamEndedEarly == pc \in {"STREAMING", "COMPLETING"}

StreamEndedOrRaised == pc \in {"COMPLETING", "ABORTED"}

\* the async for loop has ended and anyio.run has returned
StreamEnded == pc = "COMPLETING"

FinishOf(pitch) ==
    /\ StreamEnded
    /\ pc' = "FINISHED"
    /\ trace' = Append(trace,
                   Post("done", [success |-> Success, repoUrl |-> repo_url,
                                 pitch |-> pitch]))
    /\ UNCHANGED <<inputs, push_url, plan_steps, total_steps, step_index,
                   started_sent, local, remote, consumed, dirty, crash>>

Finish == \E pitch \in {"generated", "fallback"} : FinishOf(pitch)

Next ==
    \/ GitSetup
    \/ IgnoredItem
    \/ PlanMessage
    \/ StepMessage
    \/ ResultMessage
    \/ AgentRaises
    \/ Finish

Spec == Init /\ [][Next]_vars

\* ------------------------------------------------------------------------
\* Plan parsing on its own: runs without remote whose first message is
\* drawn from the texts of up to MaxMixedLines lines of any kind and the
\* texts of up to MaxPlanLines lines without item number
\* ------------------------------------------------------------------------
MaxMixedLines == 4

MaxPlanLines == 7

\* the lines a first message is made of: indent, item number, the gap after
\* the dot, the label, and the separator with the description
\*   "2. B - x"   "  10.A EMDASH y"   "a - b"   "ok"   " "
PlanLineKinds ==
    { [indent |-> <<>>, num |-> <<"2">>, gap |-> <<" ">>, label |-> <<"B">>,
       tail |-> <<" ", "-", " ", "x">>],
      [indent |-> <<" ", " ">>, num |-> <<"1", "0">>, gap |-> <<>>, label |-> <<"A">>,
       tail |-> <<" ", "EMDASH", " ", "y">>],
      [indent |-> <<>>, num |-> <<>>, gap |-> <<>>, label |-> <<"a", " ", "-", " ", "b">>,
       tail |-> <<>>],
      [indent |-> <<>>, num |-> <<>>, gap |-> <<>>, label |-> <<"o", "k">>,
       tail |-> <<>>],
      [indent |-> <<" ">>, num |-> <<>>, gap |-> <<>>, label |-> <<>>, tail |-> <<>>] }

IsNumberedLine(l) == l.num # <<>>

IsBlankLine(l) == l.num = <<>> /\ l.label = <<>>

RenderLine(l) ==
    IF IsNumberedLine(l) THEN l.indent \o l.num \o <<".">> \o l.gap \o l.label \o l.tail
    ELSE l.indent \o l.label

RECURSIVE RenderDoc(_)
RenderDoc(doc) ==
    IF doc = <<>> THEN <<>>
    ELSE IF Len(doc) = 1 THEN RenderLine(doc[1])
    ELSE RenderLine(doc[1]) \o <<NL>> \o RenderDoc(Tail(doc))

UnnumberedKinds == {l \in PlanLineKinds : ~IsNumberedLine(l)}

\* the first messages: not all of their lines are blank
PlanDocs ==
    { doc \in UNION { [1..n -> PlanLineKinds] : n \in 1..MaxMixedLines }
               \cup UNION { [1..n -> UnnumberedKinds] : n \in 1..MaxPlanLines } :
        \E k \in 1..Len(doc) : ~IsBlankLine(doc[k]) }

PlanInit ==
    /\ first_doc \in PlanDocs
    /\ script = <<>>
    /\ first_run = <<>>
    /\ callback_up = TRUE
    /\ repo_url = ""
    /\ github_token = FALSE
    /\ vercel_token = FALSE
    /\ \E cb \in CallbackUrls : base = BaseOf(cb)
    /\ pc = "INIT"
    /\ push_url = FALSE
    /\ plan_steps = <<>>
    /\ total_steps = 0
    /\ step_index = 0
    /\ started_sent = FALSE
    /\ trace = <<>>
    /\ local = <<>>
    /\ remote = <<>>
    /\ consumed = 0
    /\ dirty = TRUE
    /\ crash = "none"

\* the agent's first text block is the drawn message
FirstMessage == PlanMessageOf([type |-> "text", text |-> RenderDoc(first_doc)])

PlanNext == GitSetup \/ FirstMessage

SpecPlan == PlanInit /\ [][PlanNext]_vars

TypeOK ==
    /\ pc \in {"INIT", "STREAMING", "COMPLETING", "FINISHED", "ABORTED"}
    /\ crash \in {"none", "agent", "push_timeout"}
    /\ step_index \in Nat /\ total_steps \in Nat /\ consumed \in 0..MaxMsgs
    /\ dirty \in BOOLEAN

\* ------------------------------------------------------------------------
\* Reading the trace
\* ------------------------------------------------------------------------
IsPost(e, path) == e.k = "post" /\ e.path = path

IsGit(e, cmds) == e.k = "git" /\ e.cmd \in cmds

IsRecv(e, what) == e.k = "recv" /\ e.what = what

\* the notifications of one kind, in order
Events(path) == SelectSeq(trace, LAMBDA e : IsPost(e, path))

StepEvents == Events("step")

\* the step events of step messages, and the completion step events
PlainStepEvents == SelectSeq(trace, LAMBDA e : IsPost(e, "step") /\ ~e.body.done)

FinalStepEvents == SelectSeq(trace, LAMBDA e : IsPost(e, "step") /\ e.body.done)

GitOps == SelectSeq(trace, LAMBDA e : e.k = "git")

StepGitOps == SelectSeq(trace, LAMBDA e : IsGit(e, {"add", "commit", "push"}))

DeployReqs == SelectSeq(trace, LAMBDA e : e.k = "deploy")

TextsReceived == Len(SelectSeq(trace, LAMBDA e : IsRecv(e, "text")))

\* non-empty texts after the first one
StepMessages == IF TextsReceived = 0 THEN 0 ELSE TextsReceived - 1

ResultReceived == \E i \in 1..Len(trace) : IsRecv(trace[i], "result")

\* ------------------------------------------------------------------------
\* Claims
\* ------------------------------------------------------------------------

\* C1: the stepIndex values of the step events are 0, 1, 2, ... in emission
\* order: the i-th step event carries stepIndex i - 1, none skipped, none
\* used twice.
C1_StepIndexSequential ==
    \A i \in 1..Len(StepEvents) : StepEvents[i].body.stepIndex = i - 1

\* two step messages and the result: step events 0, 1 and the completion
\* step event 2
C1_Witness ==
    /\ pc = "FINISHED"
    /\ Len(StepEvents) = 3
    /\ StepEvents[3].body.done
    /\ StepEvents[3].body.stepIndex = 2

\* C2 (as claimed): no failure of a step's git add, commit or push ends the
\* run; a run that ended without a done event ended because the agent
\* stream raised.
C2_OnlyAgentFailureAborts ==
    pc = "ABORTED" => crash = "agent"

\* C3: with the repository URL or the push credential absent the run makes
\* no git command and no deployment request and emits no push, deployment
\* or error event, and still emits one step event per step message, the
\* completion step event on the result and the done event at the end.
C3_NoRemoteNoPublish ==
    (repo_url = "" \/ ~github_token) =>
        /\ GitOps = <<>>
        /\ DeployReqs = <<>>
        /\ Events("push") = <<>>
        /\ Events("deployment") = <<>>
        /\ Events("error") = <<>>
        /\ Len(PlainStepEvents) = StepMessages
        /\ Len(FinalStepEvents) = (IF ResultReceived THEN 1 ELSE 0)
        /\ (pc = "FINISHED" => Len(Events("done")) = 1)

\* a finished run with a repository URL but no credential, two step
\* messages
C3_Witness ==
    /\ repo_url # "" /\ ~github_token
    /\ pc = "FINISHED"
    /\ Len(PlainStepEvents) = 2
    /\ Len(FinalStepEvents) = 1

InitFailed ==
    \E i \in 1..Len(trace) :
        IsGit(trace[i], {InitCmds[j] : j \in 1..Len(InitCmds)}) /\ trace[i].rc = "fail"

\* C4: when a command of the git setup exits non-zero there is exactly one
\* error event, of phase git_init; publishing is off (no git add, commit or
\* push, no push or deployment event, no deployment request); and the job
\* goes on: start event for the plan, a step event per step message, the
\* completion step event on the result, the done event at the end.
C4_InitFailureDisablesPublish ==
    InitFailed =>
        /\ ~push_url
        /\ Len(Events("error")) = 1
        /\ Events("error")[1].body.phase = "git_init"
        /\ StepGitOps = <<>>
        /\ DeployReqs = <<>>
        /\ Events("push") = <<>>
        /\ Events("deployment") = <<>>
        /\ Len(Events("start")) = (IF TextsReceived > 0 THEN 1 ELSE 0)
        /\ Len(PlainStepEvents) = StepMessages
        /\ Len(FinalStepEvents) = (IF ResultReceived THEN 1 ELSE 0)
        /\ (pc = "FINISHED" => Len(Events("done")) = 1)

\* the last command of the setup (remote add) failed and the run finished
\* with two step messages
C4_Witness ==
    /\ \E i \in 1..Len(trace) :
          IsGit(trace[i], {"remote_add"}) /\ trace[i].rc = "fail"
    /\ pc = "FINISHED"
    /\ Len(Events("start")) = 1
    /\ Len(PlainStepEvents) = 2

\* C5 (as claimed): every run has exactly one start event, and every step
\* event has a start event before it.
C5_ExactlyOneStartInEveryRun ==
    /\ \A i \in 1..Len(trace) :
          IsPost(trace[i], "step") => \E j \in 1..(i - 1) : IsPost(trace[j], "start")
    /\ (pc = "FINISHED" => Len(Events("start")) = 1)

\* C5 (amended): a run emits one start event when the agent has sent a
\* non-empty text and none otherwise; the start event directly follows the
\* receipt of the first non-empty text and carries the plan; in a run with a
\* non-empty text it precedes every step event.
C5_StartOnceAfterPlan ==
    /\ Len(Events("start")) = (IF TextsReceived > 0 THEN 1 ELSE 0)
    /\ \A i \in 1..Len(trace) :
          (IsRecv(trace[i], "text") /\ \A j \in 1..(i - 1) : ~IsRecv(trace[j], "text"))
             => /\ i < Len(trace)
                /\ IsPost(trace[i + 1], "start")
                /\ trace[i + 1].body.planSteps = plan_steps
    /\ \A i \in 1..Len(trace) :
          (IsPost(trace[i], "step") /\ TextsReceived > 0)
             => \E j \in 1..(i - 1) : IsPost(trace[j], "start")

\* a finished run with the plan, two step messages and the completion step
C5_Witness ==
    /\ pc = "FINISHED"
    /\ Len(Events("start")) = 1
    /\ Len(StepEvents) = 3
    /\ TextsReceived = 3

\* C6 (as claimed): every totalSteps sent in a start or step event is at
\* least 1.
C6_TotalStepsAtLeastOne ==
    \A i \in 1..Len(trace) :
        (IsPost(trace[i], "start") \/ IsPost(trace[i], "step"))
           => trace[i].body.totalSteps >= 1

\* C7: once the start event is out, the plan is the list the start event
\* carried, totalSteps is that list's length, and every later step event
\* carries the same totalSteps.
C7_PlanAndTotalFixed ==
    \A i \in 1..Len(trace) :
        IsPost(trace[i], "start") =>
            /\ plan_steps = trace[i].body.planSteps
            /\ trace[i].body.totalSteps = Len(trace[i].body.planSteps)
            /\ total_steps = trace[i].body.totalSteps
            /\ \A j \in (i + 1)..Len(trace) :
                  IsPost(trace[j], "step")
                     => trace[j].body.totalSteps = trace[i].body.totalSteps

\* a plan of one label, two step messages (one more than the plan has) and
\* the completion step
C7_Witness ==
    /\ pc = "FINISHED"
    /\ Len(plan_steps) = 1
    /\ Len(PlainStepEvents) = 2
    /\ \A i \in 1..Len(StepEvents) : StepEvents[i].body.totalSteps = 1

\* number of step events of step messages among the first n trace entries
PlainStepsBefore(n) ==
    Cardinality({j \in 1..(n - 1) : IsPost(trace[j], "step") /\ ~trace[j].body.done})

\* C8: the result signal yields exactly one step event with done = true; it
\* directly follows the receipt of the result, has summary "Build complete"
\* and stepIndex = the number of step messages processed before it, and is
\* the last step event.  With publishing on it is published like any step:
\* git add follows it, its commit is "Step <index>: Build complete", a
\* successful push is followed by the push event of that index; and a run
\* whose every git command succeeded has emitted n + 1 push events for n
\* step messages.
C8_CompletionStep ==
    /\ Len(FinalStepEvents) = (IF ResultReceived THEN 1 ELSE 0)
    /\ \A i \in 1..Len(trace) :
          (IsPost(trace[i], "step") /\ trace[i].body.done) =>
             /\ i > 1 /\ IsRecv(trace[i - 1], "result")
             /\ trace[i].body.summary = BuildComplete
             /\ trace[i].body.stepIndex = PlainStepsBefore(i)
             /\ trace[i].body.stepIndex = StepMessages
             /\ \A j \in (i + 1)..Len(trace) : ~IsPost(trace[j], "step")
             /\ push_url =>
                   /\ i < Len(trace) /\ IsGit(trace[i + 1], {"add"})
                   /\ \A j \in (i + 1)..Len(trace) :
                         /\ IsGit(trace[j], {"commit"}) =>
                               trace[j].msg = CommitMsg(trace[i].body.stepIndex, BuildComplete)
                         /\ (IsGit(trace[j], {"push"}) /\ trace[j].rc = "ok") =>
                               /\ j < Len(trace)
                               /\ trace[j + 1] =
                                    Post("push", [stepIndex |-> trace[i].body.stepIndex,
                                                  summary |-> BuildComplete])
    /\ ( /\ push_url
         /\ pc \in {"COMPLETING", "FINISHED"}
         /\ \A j \in 1..Len(StepGitOps) : StepGitOps[j].rc = "ok" )
       => Len(Events("push")) = StepMessages + 1

\* publishing on, two step messages, every git command succeeded: three
\* push events, the last one for "Step 2: Build complete"
C8_Witness ==
    /\ pc = "FINISHED"
    /\ push_url
    /\ StepMessages = 2
    /\ Len(Events("push")) = 3
    /\ Events("push")[3].body.stepIndex = 2
    /\ \E j \in 1..Len(trace) :
          IsGit(trace[j], {"commit"}) /\ trace[j].msg = CommitMsg(2, BuildComplete)

\* what the trace holds in each state of the job
C9_Shape ==
    /\ pc = "INIT" => trace = <<>>
    /\ pc = "STREAMING" => ~ResultReceived
    /\ pc = "COMPLETING" => ResultReceived /\ Len(FinalStepEvents) = 1
    /\ Len(Events("done")) = (IF pc = "FINISHED" THEN 1 ELSE 0)
    /\ \A i \in 1..Len(trace) :
          IsPost(trace[i], "done") =>
             /\ i = Len(trace)
             /\ \E j \in 1..(i - 1) :
                   /\ IsPost(trace[j], "step")
                   /\ trace[j].body.done
                   /\ trace[j].body.summary = BuildComplete

\* the moves of the job between its states
C9_Move ==
    pc' # pc =>
        <<pc, pc'>> \in { <<"INIT", "STREAMING">>, <<"STREAMING", "COMPLETING">>,
                          <<"COMPLETING", "FINISHED">>, <<"STREAMING", "ABORTED">>,
                          <<"COMPLETING", "ABORTED">> }

\* C9: the job moves INIT, STREAMING, COMPLETING, FINISHED in that order (or
\* stops in between); at most one done event is emitted, it is the last
\* thing the run does, and the completion step event has been emitted
\* before it.
C9_DoneLastAfterCompletion ==
    []C9_Shape /\ [][C9_Move]_vars

\* a finished run: the done event is the last entry, after two step
\* messages and the completion step
C9_Witness ==
    /\ pc = "FINISHED"
    /\ IsPost(trace[Len(trace)], "done")
    /\ Len(PlainStepEvents) = 2
    /\ Len(FinalStepEvents) = 1

\* C10 (as claimed): the done event reports success exactly when no remote
\* was requested (neither URL nor credential), or the remote was set up and
\* a push to it succeeded.
C10_SuccessIffRemoteReached ==
    \A i \in 1..Len(trace) :
        IsPost(trace[i], "done") =>
            ( trace[i].body.success <=>
                \/ repo_url = "" /\ ~github_token
                \/ /\ push_url
                   /\ \E j \in 1..(i - 1) :
                         IsGit(trace[j], {"push"}) /\ trace[j].rc = "ok" )

\* ------------------------------------------------------------------------
\* Step messages: index, summary and cursor
\* ------------------------------------------------------------------------
\* positions of the non-empty texts in the trace
TextPos == {i \in 1..Len(trace) : IsRecv(trace[i], "text")}

\* number of step messages processed before the text at position i
\* (-1 for the first text, which is the plan)
CursorAt(i) == Cardinality({j \in TextPos : j < i}) - 1

StepTextPos == {i \in TextPos : CursorAt(i) >= 0}

\* the handler of the last message returned: the next message can be taken
HandlerReturned == crash # "push_timeout"

\* C11: for every step message the step event carries the cursor (the number
\* of step messages processed before it) as stepIndex, never the number of a
\* "[STEP i/N]" header; its summary is the header's label when the text
\* begins with a step header, otherwise the plan label at the cursor when
\* the cursor is inside the plan, otherwise "Implementing step <cursor+1>";
\* when the handler returns, the cursor has advanced by exactly one
C11_StepIndexIsCursor ==
    /\ \A i \in StepTextPos :
          LET c == CursorAt(i)
              h == StepHeader(trace[i].text)
          IN /\ i < Len(trace)
             /\ IsPost(trace[i + 1], "step")
             /\ ~trace[i + 1].body.done
             /\ trace[i + 1].body.stepIndex = c
             /\ trace[i + 1].body.summary =
                   IF h.ok THEN Strip(h.label)
                   ELSE IF c < Len(plan_steps) THEN plan_steps[c + 1]
                   ELSE ImplementingStep \o DecStr(c + 1)
    /\ HandlerReturned => step_index = Cardinality(StepTextPos)

\* a plan of two labels, then a text with the header "[STEP 9/9] W" taken at
\* cursor 0 and reported as step 0 with summary "W"
C11_Witness ==
    /\ Len(plan_steps) = 2
    /\ step_index = 1
    /\ \E i \in StepTextPos :
          /\ StepHeader(trace[i].text).ok
          /\ StepHeader(trace[i].text).i = <<"9">>
          /\ trace[i + 1].body.stepIndex = 0
          /\ trace[i + 1].body.summary = <<"W">>

\* ------------------------------------------------------------------------
\* The first text is the plan
\* ------------------------------------------------------------------------
PlanTextPos == {i \in TextPos : CursorAt(i) = -1}

\* C12: the first non-empty text is consumed as the plan and only as the
\* plan, also when it holds a step header: it is followed by the start event
\* and by no step event and no git command, and the cursor is still 0; every
\* later non-empty text is followed by exactly one step event, so the step
\* events with done=false number the non-empty texts minus one
C12_FirstTextIsPlanOnly ==
    /\ \A i \in TextPos : trace[i].text # <<>>
    /\ \A i \in PlanTextPos :
          /\ i < Len(trace)
          /\ IsPost(trace[i + 1], "start")
          /\ trace[i + 1].body.planSteps = plan_steps
          /\ i + 2 <= Len(trace) =>
                trace[i + 2].k = "recv" \/ IsPost(trace[i + 2], "done")
    /\ (TextsReceived = 1 /\ ~ResultReceived) =>
          step_index = 0 /\ StepEvents = <<>> /\ StepGitOps = <<>>
    /\ \A i \in StepTextPos :
          /\ i < Len(trace)
          /\ IsPost(trace[i + 1], "step") /\ ~trace[i + 1].body.done
          /\ i + 2 <= Len(trace) => ~IsPost(trace[i + 2], "step")
    /\ \A j \in 2..Len(trace) :
          (IsPost(trace[j], "step") /\ ~trace[j].body.done) =>
             IsRecv(trace[j - 1], "text")
    /\ TextsReceived >= 1 => Len(PlainStepEvents) = TextsReceived - 1

\* the text "[STEP 9/9] W" came first: it is the one label of the plan, the
\* start event follows it, and the two later texts gave two step events
C12_Witness ==
    /\ pc = "FINISHED"
    /\ TextsReceived = 3
    /\ Len(PlainStepEvents) = 2
    /\ \E i \in PlanTextPos :
          /\ StepHeader(trace[i].text).ok
          /\ IsPost(trace[i + 1], "start")
          /\ trace[i + 1].body.planSteps = <<trace[i].text>>

\* ------------------------------------------------------------------------
\* Remote history
\* ------------------------------------------------------------------------
\* no git command of a step was failed or held up by its environment
NoGitFailure == \A k \in 1..Len(StepGitOps) : StepGitOps[k].rc \notin {"fail", "timeout"}

CommitOps == SelectSeq(trace, LAMBDA e : IsGit(e, {"commit"}))

\* C13: with publishing enabled and no git command failing, after N
\* dispatched steps (the completion step included) the remote history is
\* exactly the N step commits "Step 0: ...", ..., "Step N-1: ..." in step
\* order, one per step also when the step changed no file, and its tip is
\* the commit of the last dispatched step
C13_OneCommitPerStep ==
    (push_url /\ NoGitFailure) =>
       /\ Len(remote) = Len(StepEvents)
       /\ \A k \in 1..Len(remote) :
             /\ remote[k] = <<"S", "t", "e", "p", " ">> \o DecStr(k - 1) \o <<":", " ">>
                              \o Take(StepEvents[k].body.summary, SummaryCut)
             /\ CommitOps[k].rc = "ok" /\ CommitOps[k].msg = remote[k]
       /\ Len(CommitOps) = Len(StepEvents)
       /\ remote = local

\* three steps dispatched, the completion step among them, one of them with
\* nothing to commit; the remote holds three commits, the last one the
\* completion step's
C13_Witness ==
    /\ push_url /\ NoGitFailure
    /\ pc = "FINISHED"
    /\ Len(StepEvents) = 3
    /\ Len(remote) = 3
    /\ remote[3] = CommitMsg(2, BuildComplete)
    /\ \E k \in 1..Len(CommitOps) : ~CommitOps[k].changed /\ CommitOps[k].rc = "ok"

\* ------------------------------------------------------------------------
\* Plan parsing
\* ------------------------------------------------------------------------
\* the labels of the lines of a message that carry an item number, in line
\* order, and its lines that are not blank, without their indentation
LabelsOf(doc) ==
    LET num == SelectSeq(doc, IsNumberedLine)
    IN [k \in 1..Len(num) |-> num[k].label]

NonBlankOf(doc) ==
    LET nb == SelectSeq(doc, LAMBDA l : ~IsBlankLine(l))
    IN [k \in 1..Len(nb) |-> RenderLine([nb[k] EXCEPT !.indent = <<>>])]

\* C14: a non-empty first message never parses to an empty plan: the plan
\* is the labels of its numbered lines in line order, whatever numbers they
\* carry; when it has no numbered line, the plan is the first min(6, n) of
\* its n non-empty lines as they are; totalSteps is the length of the plan
C14_PlanNeverEmpty ==
    started_sent =>
       /\ plan_steps # <<>>
       /\ plan_steps =
             IF LabelsOf(first_doc) # <<>> THEN LabelsOf(first_doc)
             ELSE SubSeq(NonBlankOf(first_doc), 1,
                         IF Len(NonBlankOf(first_doc)) < 6
                         THEN Len(NonBlankOf(first_doc)) ELSE 6)
       /\ total_steps = Len(plan_steps)
       /\ trace[Len(trace)].body.totalSteps = Len(plan_steps)
       /\ trace[Len(trace)].body.planSteps = plan_steps

\* a first message of seven non-empty lines without item number: the plan
\* is its first six lines
C14_Witness ==
    /\ started_sent
    /\ Len(NonBlankOf(first_doc)) = 7
    /\ LabelsOf(first_doc) = <<>>
    /\ Len(plan_steps) = 6
    /\ total_steps = 6

\* ------------------------------------------------------------------------
\* A failing agent stream
\* ------------------------------------------------------------------------
PushOkPos == {j \in 1..Len(trace) : IsGit(trace[j], {"push"}) /\ trace[j].rc = "ok"}

LastPushOk == CHOOSE j \in PushOkPos : \A k \in PushOkPos : k <= j

C15_Raised ==
    crash = "agent" =>
       /\ pc = "ABORTED"
       /\ Events("done") = <<>>
       /\ IF PushOkPos = {} THEN remote = <<>>
          ELSE remote # <<>> /\ remote[Len(remote)] = trace[LastPushOk - 1].msg

C15_Halted ==
    crash = "agent" => (trace' = trace /\ remote' = remote /\ crash' = crash)

\* C15: when the agent stream raises, the run ends without done event: no
\* done event has been posted, nothing is posted or pushed after the
\* failure, and the remote branch stays at the commit of the last
\* successful push
C15_AgentFailureEndsRun == []C15_Raised /\ [][C15_Halted]_vars

\* the stream raised after a step had been pushed
C15_Witness ==
    /\ crash = "agent"
    /\ PushOkPos # {}
    /\ Len(PlainStepEvents) >= 1
    /\ remote = local

\* ------------------------------------------------------------------------
\* Order inside a step and between steps
\* ------------------------------------------------------------------------
IsPushError(e) == IsPost(e, "error") /\ e.body.phase = "git_push"

\* the entries a dispatched step leaves, the step event first
InStep(e) ==
    \/ IsPost(e, "step") \/ IsGit(e, {"add", "commit", "push"})
    \/ IsPost(e, "push") \/ IsPushError(e)
    \/ e.k = "deploy" \/ IsPost(e, "deployment")

\* position of the step event of the step that left the entry at j
StepEventOf(j) ==
    CHOOSE i \in 1..j : IsPost(trace[i], "step")
                         /\ \A k \in (i + 1)..j : ~IsPost(trace[k], "step")

\* C16: steps are processed one after another: every event and git command
\* of a step lies between the message that caused it and the next message
\* taken from the agent; inside a step the order is step event, stage,
\* commit, force-push, push event, deployment trigger; the push event of a
\* step index never comes before the step event of that index
C16_StepOrder ==
    /\ \A j \in 1..Len(trace) :
          LET e == trace[j]
          IN InStep(e) =>
               /\ j > 1
               /\ LET p == trace[j - 1]
                  IN /\ IsPost(e, "step") =>
                          p.k = "recv" /\ p.what \in {"text", "result"}
                     /\ IsGit(e, {"add"}) => IsPost(p, "step")
                     /\ IsGit(e, {"commit"}) => IsGit(p, {"add"}) /\ p.rc = "ok"
                     /\ IsGit(e, {"push"}) => IsGit(p, {"commit"}) /\ p.rc = "ok"
                     /\ IsPost(e, "push") => IsGit(p, {"push"}) /\ p.rc = "ok"
                     /\ IsPushError(e) =>
                          IsGit(p, {"add", "commit", "push"}) /\ p.rc # "ok"
                     /\ e.k = "deploy" => IsPost(p, "push")
                     /\ IsPost(e, "deployment") => p.k = "deploy" /\ p.rc = "ok"
    /\ \A j \in 1..Len(trace) :
          IsPost(trace[j], "push") =>
             /\ \E i \in 1..(j - 1) : IsPost(trace[i], "step")
             /\ trace[StepEventOf(j)].body.stepIndex = trace[j].body.stepIndex
             /\ \A i \in 1..Len(trace) :
                   ( IsPost(trace[i], "step")
                     /\ trace[i].body.stepIndex = trace[j].body.stepIndex ) => i < j
    /\ \A i \in StepTextPos \cup {k \in 1..Len(trace) : IsRecv(trace[k], "result")} :
          /\ i < Len(trace)
          /\ IsPost(trace[i + 1], "step")
          /\ push_url => i + 1 < Len(trace) /\ IsGit(trace[i + 2], {"add"})

\* a step with all its entries in order, and the next message after them
C16_Witness ==
    \E i \in 1..Len(trace) :
       /\ i + 8 <= Len(trace)
       /\ IsRecv(trace[i], "text")
       /\ IsPost(trace[i + 1], "step")
       /\ IsGit(trace[i + 2], {"add"})
       /\ IsGit(trace[i + 3], {"commit"})
       /\ IsGit(trace[i + 4], {"push"})
       /\ IsPost(trace[i + 5], "push")
       /\ trace[i + 6].k = "deploy"
       /\ IsPost(trace[i + 7], "deployment")
       /\ IsRecv(trace[i + 8], "text")

\* ------------------------------------------------------------------------
\* Deployment trigger
\* ------------------------------------------------------------------------
\* the entry after position j is the next thing the run does after the step
NextStepOrEnd(j) ==
    j < Len(trace) => trace[j + 1].k = "recv" \/ IsPost(trace[j + 1], "done")

\* the run was not ended by what the step at the end of the trace did
RunGoesOn == pc \in {"STREAMING", "COMPLETING", "FINISHED"} \/ crash = "agent"

\* C17: a deployment is requested only for a step whose push succeeded,
\* after the push event of that step; a trigger that fails (no deploy
\* credential, a repository URL that does not parse, a failing request)
\* posts no error event, leaves the push event in place and does not end
\* the run; every error event has phase "git_init" or "git_push"; every
\* deployment event follows a push event of the same step
C17_DeployAfterPushOnly ==
    /\ \A j \in 1..Len(trace) :
          trace[j].k = "deploy" =>
             /\ j > 2
             /\ IsPost(trace[j - 1], "push")
             /\ IsGit(trace[j - 2], {"push"}) /\ trace[j - 2].rc = "ok"
             /\ vercel_token /\ RepoParses(repo_url)
             /\ trace[j].rc # "ok" => NextStepOrEnd(j) /\ (j = Len(trace) => RunGoesOn)
    /\ \A j \in 1..Len(trace) :
          IsPost(trace[j], "push") =>
             IF vercel_token /\ RepoParses(repo_url)
             THEN j < Len(trace) /\ trace[j + 1].k = "deploy"
             ELSE NextStepOrEnd(j) /\ (j = Len(trace) => RunGoesOn)
    /\ \A j \in 1..Len(trace) :
          IsPost(trace[j], "error") => trace[j].body.phase \in {"git_init", "git_push"}
    /\ \A j \in 1..Len(trace) :
          IsPost(trace[j], "deployment") =>
             /\ j > 3
             /\ trace[j - 1].k = "deploy" /\ trace[j - 1].rc = "ok"
             /\ IsPost(trace[j - 2], "push")
             /\ trace[j - 2].body.stepIndex = trace[StepEventOf(j)].body.stepIndex

\* the deployment request of step 0 failed; the push event stands, no error
\* event was posted, and the run went on to its done event
C17_Witness ==
    /\ pc = "FINISHED"
    /\ Events("error") = <<>>
    /\ \E j \in 2..Len(trace) :
          /\ trace[j].k = "deploy" /\ trace[j].rc # "ok"
          /\ IsPost(trace[j - 1], "push") /\ trace[j - 1].body.stepIndex = 0
          /\ IsRecv(trace[j + 1], "text")

\* ------------------------------------------------------------------------
\* Outcome of a step's publication
\* ------------------------------------------------------------------------
StepEventPos == {j \in 1..Len(trace) : IsPost(trace[j], "step")}

\* the last position of the entries left by the step whose event is at j
StepEnd(j) ==
    LET after == {k \in (j + 1)..Len(trace) : ~InStep(trace[k]) \/ IsPost(trace[k], "step")}
    IN IF after = {} THEN Len(trace)
       ELSE (CHOOSE k \in after : \A m \in after : k <= m) - 1

\* C19: with publishing enabled, a dispatched step whose git commands each
\* succeed or exit non-zero leaves exactly one push event or exactly one
\* error event of phase "git_push", never both and never two of either; a
\* step that leaves the error event requests no deployment
C19_PushOrErrorOnce ==
    push_url =>
       \A j \in StepEventPos :
          LET seg == j..StepEnd(j)
              pushes == {k \in seg : IsPost(trace[k], "push")}
              errors == {k \in seg : IsPushError(trace[k])}
          IN (\A k \in seg : trace[k].k = "git" => trace[k].rc # "timeout") =>
                /\ Cardinality(pushes) + Cardinality(errors) = 1
                /\ errors # {} =>
                      \A k \in seg : trace[k].k # "deploy" /\ ~IsPost(trace[k], "deployment")

\* one step ended in a push event, another in the error event after a
\* failed push
C19_Witness ==
    /\ push_url
    /\ \E j \in StepEventPos :
          \E k \in j..StepEnd(j) :
             IsPushError(trace[k]) /\ IsGit(trace[k - 1], {"push"})
    /\ \E j \in StepEventPos :
          \E k \in j..StepEnd(j) : IsPost(trace[k], "push")

\* ------------------------------------------------------------------------
\* Commits and failed pushes
\* ------------------------------------------------------------------------
\* positions of the commits that succeeded, and their messages up to j
CommitOkPos == {k \in 1..Len(trace) : IsGit(trace[k], {"commit"}) /\ trace[k].rc = "ok"}

CommitsUpTo(j) ==
    LET ok == SelectSeq(SubSeq(trace, 1, j),
                        LAMBDA e : IsGit(e, {"commit"}) /\ e.rc = "ok")
    IN [k \in 1..Len(ok) |-> ok[k].msg]

\* C20: no step commit is lost to a failed push: after a successful push the
\* remote history is, in increasing step order, the commit of every step up
\* to the pushed one whose commit succeeded, the commits whose own push
\* failed among them, and the remote tip is the local head
C20_NoCommitLost ==
    /\ local = CommitsUpTo(Len(trace))
    /\ \A a, b \in CommitOkPos :
          a < b => trace[StepEventOf(a)].body.stepIndex < trace[StepEventOf(b)].body.stepIndex
    /\ IF PushOkPos = {} THEN remote = <<>>
       ELSE remote = CommitsUpTo(LastPushOk)
    /\ \A k \in CommitOkPos : \A j \in PushOkPos :
          k < j => \E m \in 1..Len(remote) : remote[m] = trace[k].msg
    /\ (trace # <<>> /\ Len(trace) \in PushOkPos \cup {j + 1 : j \in PushOkPos}) =>
          remote = local

\* the push of step 0 failed after its commit, the push of step 1 succeeded:
\* the remote holds the commits of both steps
C20_Witness ==
    \E a, b \in CommitOkPos :
       /\ a < b
       /\ IsGit(trace[a + 1], {"push"}) /\ trace[a + 1].rc = "fail"
       /\ IsGit(trace[b + 1], {"push"}) /\ trace[b + 1].rc = "ok"
       /\ remote = <<trace[a].msg, trace[b].msg>>
       /\ remote = local

\* ------------------------------------------------------------------------
\* Two runs on one script: the program is run, and run again with another
\* callback target, on the same agent stream and the same outcomes of the
\* git commands and deployment requests
\* ------------------------------------------------------------------------
MaxTwinMsgs == 2

ToolUse == [type |-> "tool_use", text |-> <<>>]

DeployFails == [ok |-> FALSE, url |-> <<>>]

DeployOk == [ok |-> TRUE, url |-> <<"app.vercel.app">>]

\* a stream item with the outcomes of the step it starts, if it starts one
TwinEvents ==
    { [item |-> ToolUse, g |-> "ok", d |-> DeployOk, w |-> TRUE],
      [item |-> [type |-> "text", text |-> TextPlan], g |-> "ok", d |-> DeployOk,
       w |-> TRUE],
      [item |-> [type |-> "text", text |-> TextHeader], g |-> "ok", d |-> DeployFails,
       w |-> FALSE],
      [item |-> [type |-> "text", text |-> TextPlan], g |-> "push_fail", d |-> DeployOk,
       w |-> TRUE],
      [item |-> [type |-> "text", text |-> TextHeader], g |-> "push_timeout",
       d |-> DeployOk, w |-> TRUE] }

\* how the stream ends: with its result (and then normally or not) or by
\* raising
TwinEnds ==
    { [result |-> TRUE, g |-> "ok", d |-> DeployOk, w |-> FALSE, finish |-> TRUE],
      [result |-> TRUE, g |-> "push_fail", d |-> DeployOk, w |-> TRUE, finish |-> FALSE],
      [result |-> FALSE, g |-> "ok", d |-> DeployOk, w |-> TRUE, finish |-> FALSE] }

\* the failing command of the git setup (none, or git branch -M)
TwinSetups == {0, 4}

Scripts ==
    [setup : TwinSetups,
     items : UNION { [1..n -> TwinEvents] : n \in 0..MaxTwinMsgs },
     end : TwinEnds]

\* the runs have a token: without one they are the runs without repository
TwinInit ==
    /\ repo_url \in RepoUrls
    /\ github_token = TRUE
    /\ vercel_token \in BOOLEAN
    /\ \E cb \in CallbackUrls : base = BaseOf(cb)
    /\ callback_up \in BOOLEAN
    /\ script \in Scripts
    /\ first_run = <<>>
    /\ first_doc = <<>>
    /\ pc = "INIT"
    /\ push_url = FALSE
    /\ plan_steps = <<>>
    /\ total_steps = 0
    /\ step_index = 0
    /\ started_sent = FALSE
    /\ trace = <<>>
    /\ local = <<>>
    /\ remote = <<>>
    /\ consumed = 0
    /\ dirty = TRUE
    /\ crash = "none"

TwinSetup == GitSetupOf(script.setup)

TwinItem ==
    /\ consumed < Len(script.items)
    /\ LET x == script.items[consumed + 1]
       IN \/ IgnoredItemOf(x.item)
          \/ PlanMessageOf(x.item)
          \/ StepMessageOf(x.item, x.g, x.d, x.w)

TwinResult ==
    /\ consumed = Len(script.items)
    /\ script.end.result
    /\ ResultMessageOf(script.end.g, script.end.d, script.end.w)

TwinRaise ==
    /\ \/ pc = "STREAMING" /\ consumed = Len(script.items) /\ ~script.end.result
       \/ pc = "COMPLETING" /\ ~script.end.finish
    /\ AgentRaises

TwinFinish == script.end.finish /\ FinishOf("generated")

\* the callback target starts or stops answering between two handlers
CallbackFlips ==
    /\ pc \in {"INIT", "STREAMING", "COMPLETING"}
    /\ base # ""
    /\ callback_up' = ~callback_up
    /\ UNCHANGED <<repo_url, github_token, vercel_token, base, first_doc, script,
                   first_run, pc, push_url, plan_steps, total_steps, step_index,
                   started_sent, trace, local, remote, consumed, dirty, crash>>

\* what the run did apart from notifying: the git commands with their
\* messages and outcomes, the cursor values, the branches, the deployment
\* requests, and how it ended
Pipeline ==
    [gits |-> GitOps,
     cursors |-> [k \in 1..Len(StepEvents) |-> StepEvents[k].body.stepIndex],
     cursor |-> step_index,
     local |-> local,
     remote |-> remote,
     deploys |-> DeployReqs,
     pc |-> pc]

RunEnded == pc \in {"FINISHED", "ABORTED"}

\* the first run has ended: the program is started again on the same script
\* and configuration, with any callback target
Restart ==
    /\ RunEnded
    /\ first_run = <<>>
    /\ first_run' = <<[pipe |-> Pipeline, base |-> base]>>
    /\ \E cb \in CallbackUrls : base' = BaseOf(cb)
    /\ callback_up' \in BOOLEAN
    /\ pc' = "INIT"
    /\ push_url' = FALSE
    /\ plan_steps' = <<>>
    /\ total_steps' = 0
    /\ step_index' = 0
    /\ started_sent' = FALSE
    /\ trace' = <<>>
    /\ local' = <<>>
    /\ remote' = <<>>
    /\ consumed' = 0
    /\ dirty' = TRUE
    /\ crash' = "none"
    /\ UNCHANGED <<repo_url, github_token, vercel_token, first_doc, script>>

TwinNext ==
    \/ TwinSetup
    \/ TwinItem
    \/ TwinResult
    \/ TwinRaise
    \/ TwinFinish
    \/ CallbackFlips
    \/ Restart

SpecTwin == TwinInit /\ [][TwinNext]_vars

\* C18: notification has no effect on the pipeline: two runs on the same
\* agent stream and the same git and deployment outcomes issue the same git
\* commands with the same commit messages and go through the same cursor
\* values, whether the callback target is absent or invalid, answers, or
\* fails during any of the handlers; without valid callback target no
\* request is made, and a request that failed is not made again
C18_NotificationHasNoEffect ==
    /\ (first_run # <<>> /\ RunEnded) => Pipeline = first_run[1].pipe
    /\ base = "" => \A j \in 1..Len(trace) : trace[j].k = "post" => ~trace[j].sent
    /\ \A j \in 1..(Len(trace) - 1) :
          (trace[j].k = "post" /\ trace[j].sent /\ ~trace[j].answered) =>
             ~( /\ trace[j + 1].k = "post"
                /\ trace[j + 1].path = trace[j].path
                /\ trace[j + 1].body = trace[j].body )

\* a first run without callback target and a second run whose callback
\* target failed on some requests and answered others: both pushed, and both
\* did the same
C18_Witness ==
    /\ first_run # <<>>
    /\ first_run[1].base = ""
    /\ pc = "FINISHED"
    /\ PushOkPos # {}
    /\ \E j \in 1..Len(trace) : trace[j].k = "post" /\ trace[j].sent /\ ~trace[j].answered
    /\ \E j \in 1..Len(trace) : trace[j].k = "post" /\ trace[j].answered
    /\ Pipeline = first_run[1].pipe

====
